---- MODULE Spec2Model ----
(***************************************************************************)
(* Compatibility scoring and the discovery / recommendation feeds of the   *)
(* dating backend (app/services/matching.py, app/routers/discovery.py,     *)
(* app/routers/recommendations.py) over the tables they read, together     *)
(* with the handlers that write those tables, and the swipe, message,      *)
(* reveal and rewind routers and the rate limiting middleware              *)
(* (app/routers/swipe.py, messages.py, reveal.py, rewind.py,               *)
(* app/middleware/rate_limiter.py).                                        *)
(*                                                                         *)
(* Numbers.  Scores are kept exactly, in units of 1/6000 point (100 points *)
(* = 600000 units); distances are kept in metres; coordinates in tenths of *)
(* a degree.  An optional column is <<>> (SQL NULL / Python None) or <<v>>. *)
(*                                                                         *)
(* Query client.  The PostgREST client is not part of the repository.  Two *)
(* of its behaviours are left open, as inputs of every request (lib):      *)
(*   single_raises  - .single().execute() on zero rows raises, or returns  *)
(*                    a response whose data is None (the handlers are      *)
(*                    written for both: "if not x.data" and try/except);   *)
(*   extend_raises  - response.extend(rows) (discovery.py:63) raises, or   *)
(*                    appends the rows to response.data.                   *)
(*   or_raises      - .or_(a, b) with two positional filters (swipe.py)    *)
(*                    raises, or takes b for the referenced table and      *)
(*                    leaves the rows of the table unfiltered;             *)
(*   column_raises  - a filter on a column the other handlers do not use   *)
(*                    (rewind.py:127-129) raises, or finds no row.         *)
(* Rows of a select without an order clause come in table (id) order.      *)
(*                                                                         *)
(* Specifications.  Spec serves each request in one step; SpecRace lets    *)
(* permanently_delete_user (app/routers/gdpr.py) remove a users row        *)
(* between the pool query and the scoring loop of a recommendation         *)
(* request; SpecScore applies the scorer alone to every combination of     *)
(* rows.                                                                   *)
(* SpecSwipe serves like, pass and undo requests one at a time and        *)
(* SpecSwipeRace interleaves the queries of two like_user calls;           *)
(* SpecMessages runs reveal, the HTTP send and the WebSocket of a match;   *)
(* SpecLimiter runs the middleware against a clock; SpecRewind runs the    *)
(* rewind router over a fixed actions table.                               *)
(***************************************************************************)
EXTENDS Integers, Sequences, FiniteSets, TLC

\* ------------------------------------------------------------------ bounds
NumUsers == 3
MaxLimit == 2
MaxOffset == 1
MaxWrites == 1
MaxInterests == 2

Users == 1..NumUsers

\* ------------------------------------------------------- optional values
None == <<>>
Some(v) == <<v>>
IsNone(o) == o = <<>>
Val(o) == o[1]

Max(a, b) == IF a >= b THEN a ELSE b
Min(a, b) == IF a <= b THEN a ELSE b

\* ------------------------------------------------------------ score units
\* one point of score = Unit units, so that s/t*40, m/4*10, m/3*5 and
\* (1 - d/30)*15 with d in metres are all integers
Unit == 100 * 60

\* round(x, 2) on a score held in units: nearest multiple of Unit/100
Round2(x) == ((x + 30) \div 60) * 60

\* ------------------------------------------------------------- state
VARIABLES
  users,           \* users table: id of a row -> [age, is_verified, deleted,
                   \* values]
  user_locations,  \* user_locations table: id -> None | <<lat, lon>>
  user_filters,    \* user_filters table: id -> None | filter record
  user_blocks,     \* user_blocks rows [blocker_id, blocked_id, deleted]
  matches,         \* matches rows [id, user1, user2, deleted,
                   \* reveal_user1, reveal_user2]
  abuse_reports,   \* abuse_reports rows [reporter_id, reported_id, deleted]
  user_interests,  \* user_interests table: id -> set of interest ids
  user_lifestyle,  \* user_lifestyle table: id -> None | record
  user_goals,      \* user_goals table: id -> None | record
  writes,          \* number of write requests served so far (of
                   \* requests, for the rate limiter)
  resp,            \* the response of the last request served
  user_actions,    \* user_actions rows in created_at order: [user_id,
                   \* target_user_id, action_type, deleted, match_id]
  calls,           \* like_user calls under way: caller -> position
  messages,        \* messages rows in created_at order: [match_id,
                   \* sender_id]
  active_connections, \* messages.active_connections: the accepted
                   \* sockets, as [match_id, user_id]
  actions,         \* actions table: id -> [user_id, action_type, deleted]
  user_rewinds,    \* user_rewinds rows [user_id, action_id, status]
  rate_limit_store,\* rate_limiter.rate_limit_store: key -> timestamps
  now,             \* time.time(), in seconds
  admitted         \* the requests the rate limiter let through, as
                   \* <<action, client, timestamp>>, in order

\* the tables and the process state outside the feeds
chat == <<messages, active_connections>>
rewinds == <<actions, user_rewinds>>
limiter == <<rate_limit_store, now, admitted>>
social == <<user_actions, calls, chat, rewinds, limiter>>

vars == <<users, user_locations, user_filters, user_blocks, matches,
          abuse_reports, user_interests, user_lifestyle, user_goals,
          writes, resp, social>>

store == <<users, user_locations, user_filters, user_blocks, matches,
           abuse_reports, user_interests, user_lifestyle, user_goals>>

\* ------------------------------------------------------------ geodistance
\* Coordinates the model uses, in tenths of a degree: (0,0), (0,0.1),
\* (0.1,0.1) and (0.4,0.4).
Coords == {<<0, 0>>, <<0, 1>>, <<1, 1>>, <<4, 4>>}

\* the unordered pair of two coordinates, as the table below is indexed
PairOf(c1, c2) == {c1, c2}

\* haversine_distance(lat1, lon1, lat2, lon2) with R = 6371, in metres,
\* tabulated from the formula for the coordinates of Coords
haversine_distance(c1, c2) ==
  LET p == PairOf(c1, c2) IN
  IF c1 = c2 THEN 0
  ELSE IF p = {<<0, 0>>, <<0, 1>>} THEN 11119
  ELSE IF p = {<<0, 0>>, <<1, 1>>} THEN 15725
  ELSE IF p = {<<0, 0>>, <<4, 4>>} THEN 62901
  ELSE IF p = {<<0, 1>>, <<1, 1>>} THEN 11119
  ELSE IF p = {<<0, 1>>, <<4, 4>>} THEN 55597
  ELSE 47176

\* geopy's geodesic(a, b).kilometers (WGS-84 ellipsoid), in metres,
\* tabulated for the coordinates of Coords
geodesic(c1, c2) ==
  LET p == PairOf(c1, c2) IN
  IF c1 = c2 THEN 0
  ELSE IF p = {<<0, 0>>, <<0, 1>>} THEN 11132
  ELSE IF p = {<<0, 0>>, <<1, 1>>} THEN 15690
  ELSE IF p = {<<0, 0>>, <<4, 4>>} THEN 62761
  ELSE IF p = {<<0, 1>>, <<1, 1>>} THEN 11057
  ELSE IF p = {<<0, 1>>, <<4, 4>>} THEN 55421
  ELSE 47071

\* round(dist, 1): metres to tenths of a kilometre
Round1(m) == (m + 50) \div 100

\* ------------------------------------------------- compatibility scoring
LifestyleFields == {"smoking", "drinking", "diet", "social_lifestyle"}
GoalsFields == {"wants_kids", "marriage_timeline", "relationship_type"}

\* (shared / max(len, len)) * weight when both sets are non-empty, else 0
OverlapScoreMutant(s1, s2, weight) ==
  IF s1 # {} /\ s2 # {}
  THEN (Cardinality(s1 \cap s2) * weight * Unit) \div Cardinality(s1)
  ELSE 0
OverlapScoreUnionMutant(s1, s2, weight) ==
  IF s1 # {} /\ s2 # {}
  THEN (Cardinality(s1 \cup s2) * weight * Unit)
         \div Max(Cardinality(s1), Cardinality(s2))
  ELSE 0
OverlapScore(s1, s2, weight) ==
  IF s1 # {} /\ s2 # {}
  THEN (Cardinality(s1 \cap s2) * weight * Unit)
         \div Max(Cardinality(s1), Cardinality(s2))
  ELSE 0

\* max(0, (1 - min(distance_km, 30) / 30) * 15) for a distance in metres:
\* (30000 - min(m, 30000)) / 30000 * 15 points, 15 * Unit / 30000 = 3 units
\* a metre
LocationScoreMutant(m) == (30000 - m) * ((15 * Unit) \div 30000)
LocationScore(m) == Max(0, (30000 - Min(m, 30000)) * ((15 * Unit) \div 30000))

\* (matches / checks) * weight over the fields both rows carry.  The rows
\* come from select("*"), so every column is a key of both rows, null or
\* not; null equals null.  A null column is the string "None".
FieldScoreMutant(r1, r2, fields, weight) ==
  LET checked == {f \in fields : f \in DOMAIN r1 /\ f \in DOMAIN r2}
      matched == {f \in checked : r1[f] = r2[f] /\ r1[f] # "None"}
  IN IF Cardinality(checked) > 0
     THEN (Cardinality(matched) * weight * Unit) \div Cardinality(checked)
     ELSE 0
FieldScore(r1, r2, fields, weight) ==
  LET checked == {f \in fields : f \in DOMAIN r1 /\ f \in DOMAIN r2}
      matched == {f \in checked : r1[f] = r2[f]}
  IN IF Cardinality(checked) > 0
     THEN (Cardinality(matched) * weight * Unit) \div Cardinality(checked)
     ELSE 0

\* return 0.0, 0.0 ("not user1 or not user2", and the outer except)
ScoreFailureMutant == <<50 * Unit, 50 * Unit>>
ScoreFailure == <<0, 0>>

\* return total_score, total_score
ScoreResultMutant(total_score) == <<total_score, Round2(total_score)>>
ScoreResult(total_score) == <<total_score, total_score>>

\* the users row of an id, if there is one: .eq("id", id).single()
HasUserRow(id) == id \in DOMAIN users

\* the five factors of a pair of users that both have a users row
interest_score(user1_id, user2_id) ==
  OverlapScore(user_interests[user1_id], user_interests[user2_id], 40)

values_score(user1_id, user2_id) ==
  OverlapScore(users[user1_id].values, users[user2_id].values, 30)

\* inner try/except: a raising single() gives location_score 0, as does a
\* missing row
location_score(user1_id, user2_id) ==
  LET loc1 == user_locations[user1_id]
      loc2 == user_locations[user2_id]
  IN IF IsNone(loc1) \/ IsNone(loc2) THEN 0
     ELSE LocationScore(haversine_distance(Val(loc1), Val(loc2)))

lifestyle_score(user1_id, user2_id) ==
  LET lifestyle1 == user_lifestyle[user1_id]
      lifestyle2 == user_lifestyle[user2_id]
  IN IF IsNone(lifestyle1) \/ IsNone(lifestyle2) THEN 0
     ELSE FieldScore(Val(lifestyle1), Val(lifestyle2), LifestyleFields, 10)

goals_score(user1_id, user2_id) ==
  LET goals1 == user_goals[user1_id]
      goals2 == user_goals[user2_id]
  IN IF IsNone(goals1) \/ IsNone(goals2) THEN 0
     ELSE FieldScore(Val(goals1), Val(goals2), GoalsFields, 5)

\* calculate_compatibility_score(user1_id, user2_id): <<score, match_pct>>
calculate_compatibility_score(user1_id, user2_id, lib) ==
  IF ~HasUserRow(user1_id) \/ ~HasUserRow(user2_id)
  THEN ScoreFailure                 \* single() raised, or "not user"
  ELSE
  LET \* a single() that raises on a missing lifestyle or goals row is
      \* caught by the outer except only
      raised == lib.single_raises /\
                (IsNone(user_lifestyle[user1_id])
                 \/ IsNone(user_lifestyle[user2_id])
                 \/ IsNone(user_goals[user1_id])
                 \/ IsNone(user_goals[user2_id]))
      total_score == interest_score(user1_id, user2_id)
                     + values_score(user1_id, user2_id)
                     + location_score(user1_id, user2_id)
                     + lifestyle_score(user1_id, user2_id)
                     + goals_score(user1_id, user2_id)
  IN IF raised THEN ScoreFailure ELSE ScoreResult(total_score)

\* ------------------------------------------------------ sorting, slicing
\* list.sort is stable, also with reverse=True.  The lists sorted here are
\* sequences of <<key, entry>>, ascending in key; a descending sort is the
\* ascending sort on the negated key.
InsertStable(sorted, x) ==
  LET n == Cardinality({i \in 1..Len(sorted) : sorted[i][1] <= x[1]})
  IN SubSeq(sorted, 1, n) \o <<x>> \o SubSeq(sorted, n + 1, Len(sorted))

StableSortMutant(s) == s
RECURSIVE StableSort(_)
StableSort(s) ==
  IF s = <<>> THEN <<>>
  ELSE InsertStable(StableSort(SubSeq(s, 1, Len(s) - 1)), s[Len(s)])

Entries(keyed) == [i \in 1..Len(keyed) |-> keyed[i][2]]

\* lst[offset:offset + limit]
SliceMutant(lst, offset, limit) ==
  SubSeq(lst, offset + 1, Min(offset + limit - 1, Len(lst)))
Slice(lst, offset, limit) ==
  SubSeq(lst, offset + 1, Min(offset + limit, Len(lst)))

\* the ids of a set as a list in table order
RECURSIVE InOrder(_)
InOrder(S) ==
  IF S = {} THEN <<>>
  ELSE LET m == CHOOSE x \in S : \A y \in S : x <= y
       IN <<m>> \o InOrder(S \ {m})

\* ------------------------------------------------------ shared queries
\* users ... .eq("is_verified", True).is_("deleted_at", None)
AllUsersMutant == {u \in DOMAIN users : users[u].is_verified}
AllUsers == {u \in DOMAIN users : users[u].is_verified /\ ~users[u].deleted}

\* user_blocks .eq("blocker_id", user_id).is_("deleted_at", None)
BlockedIdsMutant(user_id) ==
  {b.blocked_id : b \in {r \in user_blocks :
                           r.blocker_id = user_id /\ ~r.deleted}}
  \cup {b.blocker_id : b \in {r \in user_blocks :
                                r.blocked_id = user_id /\ ~r.deleted}}
BlockedIds(user_id) ==
  {b.blocked_id : b \in {r \in user_blocks :
                           r.blocker_id = user_id /\ ~r.deleted}}

\* abuse_reports .eq("reporter_id", user_id).is_("deleted_at", None)
ReportedIds(user_id) ==
  {r.reported_id : r \in {x \in abuse_reports :
                            x.reporter_id = user_id /\ ~x.deleted}}

\* matches .or_("user1.eq.U,user2.eq.U").is_("deleted_at", None)
MatchRows(user_id) ==
  {m \in matches : (m.user1 = user_id \/ m.user2 = user_id) /\ ~m.deleted}

HttpError(req, code) == [req |-> req, status |-> code]

\* total_count = len(lst); paginated = lst[offset:offset + limit];
\* return {"data", "total", "limit", "offset"}
PaginatedResponseMutant(req, lst) ==
  [req |-> req, status |-> 200,
   data |-> Slice(lst, req.offset, req.limit),
   total |-> Len(Slice(lst, req.offset, req.limit)),
   limit |-> req.limit, offset |-> req.offset]
PaginatedResponse(req, lst) ==
  [req |-> req, status |-> 200,
   data |-> Slice(lst, req.offset, req.limit),
   total |-> Len(lst), limit |-> req.limit, offset |-> req.offset]

\* --------------------------------------------------------- discovery feed
\* matched_set of get_discovery: user2 of the rows with user1 = viewer and
\* user1 of the rows with user2 = viewer
DiscoveryMatchedSet(user_id) ==
  {m.user2 : m \in {r \in matches : r.user1 = user_id /\ ~r.deleted}}
  \cup {m.user1 : m \in {r \in matches : r.user2 = user_id /\ ~r.deleted}}

\* get_discovery(user_id, distance_km, limit, offset, sort_by); min_age and
\* max_age are accepted and never read
get_discovery(req) ==
  LET user_id == req.user_id
      lib == req.lib
      user_loc == user_locations[user_id]
      others == AllUsers \ {user_id}
      dist(u) == geodesic(Val(user_loc), Val(user_locations[u]))
      candidates == {u \in others : ~(dist(u) > req.distance_km * 1000)}
      filtered == {c \in candidates :
                     c \notin BlockedIds(user_id)
                     /\ c \notin DiscoveryMatchedSet(user_id)
                     /\ c \notin ReportedIds(user_id)}
      entry(c) == [id |-> c,
                   distance_km |-> Round1(dist(c)),
                   match_percentage |->
                     Round2(calculate_compatibility_score(user_id, c, lib)[2])]
      lst == InOrder(filtered)
      keyed == [i \in 1..Len(lst) |->
                  LET e == entry(lst[i]) IN
                  <<IF req.sort_by = "compatibility"
                    THEN 0 - e.match_percentage ELSE e.distance_km, e>>]
      sorted == Entries(StableSort(keyed))
  IN IF IsNone(user_loc)
     THEN \* single() on no row: raises (500) or data is None (400)
          HttpError(req, IF lib.single_raises THEN 500 ELSE 400)
     ELSE IF \E u \in others : IsNone(user_locations[u])
     THEN HttpError(req, 500)      \* float(None) while building candidates
     ELSE IF lib.extend_raises
     THEN HttpError(req, 500)      \* matched_ids.extend(...)
     ELSE PaginatedResponse(req, sorted)

\* ---------------------------------------------------- recommendation feed
\* Python truthiness of an optional number: None and 0 are false
Truthy(o) == ~IsNone(o) /\ Val(o) # 0

\* filters.get(key, default) on the user_filters row, or on {} without one
FiltersGet(filters, key, default) ==
  IF IsNone(filters) THEN default ELSE Val(filters)[key]

\* matched_ids of get_user_recommendations: the other side of each row
RouterMatchedIds(user_id) ==
  {IF m.user1 # user_id THEN m.user1 ELSE m.user2 : m \in MatchRows(user_id)}

\* a candidate loop that drops a row without a coordinate
RouterKeepsMutant(user_id, u, filters) ==
  LET age == users[u].age
      loc == user_locations[u]
      excluded_ids == BlockedIds(user_id) \cup RouterMatchedIds(user_id)
                      \cup ReportedIds(user_id) \cup {user_id}
  IN /\ u \notin excluded_ids
     /\ Truthy(age) =>
          /\ FiltersGet(filters, "min_age", 18) <= Val(age)
          /\ Val(age) <= FiltersGet(filters, "max_age", 50)
     /\ ~IsNone(loc)
     /\ ~(haversine_distance(Val(user_locations[user_id]), Val(loc))
           > FiltersGet(filters, "max_distance_km", 30) * 1000)

\* the candidate loop of get_user_recommendations, for one row of all_users
RouterKeeps(user_id, u, filters) ==
  LET age == users[u].age
      loc == user_locations[u]
      lat == IF IsNone(loc) THEN None ELSE Some(Val(loc)[1])
      lon == IF IsNone(loc) THEN None ELSE Some(Val(loc)[2])
      excluded_ids == BlockedIds(user_id) \cup RouterMatchedIds(user_id)
                      \cup ReportedIds(user_id) \cup {user_id}
  IN /\ u \notin excluded_ids
     /\ Truthy(age) =>
          /\ FiltersGet(filters, "min_age", 18) <= Val(age)
          /\ Val(age) <= FiltersGet(filters, "max_age", 50)
     /\ (Truthy(lat) /\ Truthy(lon)) =>
          ~(haversine_distance(Val(user_locations[user_id]), Val(loc))
              > FiltersGet(filters, "max_distance_km", 30) * 1000)

\* the rows of all_users that the candidate loop keeps, in table order:
\* the "id" and "age" of each as read with the pool
RouterCandidates(req, flt) ==
  LET lst == InOrder({u \in AllUsers :
                        RouterKeeps(req.user_id, u, flt[req.user_id])})
  IN [i \in 1..Len(lst) |-> [id |-> lst[i], age |-> users[lst[i]].age]]

\* the scoring loop, the sort and the pagination of
\* get_user_recommendations over the kept rows
RouterScore(req, candidates) ==
  LET entry(c) ==
        LET sc == calculate_compatibility_score(req.user_id, c.id, req.lib)
        IN [id |-> c.id, age |-> c.age,
            compatibility_score |-> Round2(sc[1]),
            match_percentage |-> Round2(sc[2])]
      keyed == [i \in 1..Len(candidates) |->
                  LET e == entry(candidates[i])
                  IN <<0 - e.compatibility_score, e>>]
      recommendations == Entries(StableSort(keyed))
  IN PaginatedResponse(req, recommendations)

\* the failures of get_user_recommendations before its candidate loop
RouterError(req, flt) ==
  IF IsNone(user_locations[req.user_id])
  THEN Some(HttpError(req, IF req.lib.single_raises THEN 500 ELSE 400))
  ELSE IF IsNone(flt[req.user_id]) /\ req.lib.single_raises
  THEN Some(HttpError(req, 500))   \* user_filters ... .single() raised
  ELSE None

\* get_user_recommendations(user_id, limit, offset), reading the
\* user_filters table flt
get_user_recommendations(req, flt) ==
  IF ~IsNone(RouterError(req, flt)) THEN Val(RouterError(req, flt))
  ELSE RouterScore(req, RouterCandidates(req, flt))

\* matched_ids of the service get_recommendations: only rows in which the
\* viewer is on neither side are used
ServiceMatchedIds(user_id) ==
  {m.user1 : m \in {r \in MatchRows(user_id) :
                      r.user1 # user_id /\ r.user2 # user_id}}

\* the candidate loop of the service get_recommendations
ServiceKeeps(user_id, u, filters) ==
  LET age == users[u].age
      excluded_ids == BlockedIds(user_id) \cup ServiceMatchedIds(user_id)
                      \cup ReportedIds(user_id) \cup {user_id}
  IN /\ u \notin excluded_ids
     /\ (~IsNone(filters) /\ Truthy(age)) =>
          /\ FiltersGet(filters, "min_age", 18) <= Val(age)
          /\ Val(age) <= FiltersGet(filters, "max_age", 50)

\* the rows of all_users that the service's candidate loop keeps
ServiceCandidates(req, flt) ==
  LET lst == InOrder({u \in AllUsers :
                        ServiceKeeps(req.user_id, u, flt[req.user_id])})
  IN [i \in 1..Len(lst) |-> [id |-> lst[i], age |-> users[lst[i]].age]]

\* the scoring loop, the sort and the pagination of the service
ServiceScore(req, candidates) ==
  LET entry(c) ==
        LET sc == calculate_compatibility_score(req.user_id, c.id, req.lib)
        IN [id |-> c.id, score |-> sc[1], match_percentage |-> sc[2]]
      keyed == [i \in 1..Len(candidates) |->
                  LET e == entry(candidates[i]) IN <<0 - e.score, e>>]
      recommendations == Entries(StableSort(keyed))
  IN [req |-> req, data |-> Slice(recommendations, req.offset, req.limit)]

\* the ways the service ends before its candidate loop: "if not user:
\* return []" for a viewer without a users row, and "except Exception:
\* return []" when the lookup of the viewer's filter row raises
ServiceError(req, flt) ==
  IF ~HasUserRow(req.user_id)
  THEN Some([req |-> req, data |-> <<>>])
  ELSE IF IsNone(flt[req.user_id]) /\ req.lib.single_raises
  THEN Some([req |-> req, data |-> <<>>])
  ELSE None

\* services.matching.get_recommendations(user_id, limit, offset): a list
get_recommendations(req, flt) ==
  IF ~IsNone(ServiceError(req, flt)) THEN Val(ServiceError(req, flt))
  ELSE ServiceScore(req, ServiceCandidates(req, flt))

\* ------------------------------------------------------------- requests
NoResp == [req |-> [op |-> "idle"]]

\* the two open behaviours of the query client, chosen per request
\* (a request exercises at most one of the two failures)
Libs == {l \in [single_raises : BOOLEAN, extend_raises : BOOLEAN] :
           ~(l.single_raises /\ l.extend_raises)}
SingleLibs == {l \in Libs : ~l.extend_raises}

\* Query(20, ge=1, le=500) for distance_km: the values requested here
DistanceKms == {20, 60}
SortKeys == {"distance", "compatibility"}

\* bodies of POST /profile/filters requested here
FilterInputs ==
  {[min_age |-> 30, max_age |-> 45, max_distance_km |-> 12]}

\* ages sent to PUT /users/{id}; latitude, longitude sent to /locations
AgeInputs == {0}
LocationInputs == {<<0, 0>>}

\* a reader that saves the requested radius as the viewer's filter row
DiscoveryMutant(user_id, distance_km, limit, offset, sort_by, lib) ==
  /\ resp = NoResp
  /\ resp' = get_discovery([op |-> "discovery", user_id |-> user_id,
                            distance_km |-> distance_km, limit |-> limit,
                            offset |-> offset, sort_by |-> sort_by,
                            lib |-> lib])
  /\ user_filters' = [user_filters EXCEPT ![user_id] =
                       Some([min_age |-> 18, max_age |-> 50,
                             max_distance_km |-> distance_km])]
  /\ UNCHANGED <<users, user_locations, user_blocks, matches, abuse_reports,
                 user_interests, user_lifestyle, user_goals, writes,
                 social>>

Discovery(user_id, distance_km, limit, offset, sort_by, lib) ==
  /\ resp = NoResp
  /\ resp' = get_discovery([op |-> "discovery", user_id |-> user_id,
                            distance_km |-> distance_km, limit |-> limit,
                            offset |-> offset, sort_by |-> sort_by,
                            lib |-> lib])
  /\ UNCHANGED <<store, social, writes>>

Recommendations(user_id, limit, offset, lib) ==
  /\ resp = NoResp
  /\ resp' = get_user_recommendations(
               [op |-> "recommendations", user_id |-> user_id,
                limit |-> limit, offset |-> offset, lib |-> lib],
               user_filters)
  /\ UNCHANGED <<store, social, writes>>

ServiceRecommendations(user_id, limit, offset, lib) ==
  /\ resp = NoResp
  /\ resp' = get_recommendations(
               [op |-> "get_recommendations", user_id |-> user_id,
                limit |-> limit, offset |-> offset, lib |-> lib],
               user_filters)
  /\ UNCHANGED <<store, social, writes>>

\* calculate_compatibility_score(user1_id, user2_id) called for one pair
Score(user1_id, user2_id, lib) ==
  LET result == calculate_compatibility_score(user1_id, user2_id, lib) IN
  /\ resp = NoResp
  /\ resp' = [req |-> [op |-> "calculate_compatibility_score",
                       user1_id |-> user1_id, user2_id |-> user2_id,
                       lib |-> lib],
              score |-> result[1], match_percentage |-> result[2]]
  /\ UNCHANGED <<store, social, writes>>

\* POST /locations/update: upsert of the caller's row
update_location(user_id, coord) ==
  /\ resp = NoResp /\ writes < MaxWrites
  /\ user_locations' = [user_locations EXCEPT ![user_id] = Some(coord)]
  /\ writes' = writes + 1
  /\ resp' = [req |-> [op |-> "update_location", user_id |-> user_id],
              status |-> 200]
  /\ UNCHANGED <<users, user_filters, user_blocks, matches, abuse_reports,
                 user_interests, user_lifestyle, user_goals, social>>

\* POST /profile/filters: update the caller's row, or insert it
save_filters(user_id, filters, lib) ==
  LET req == [op |-> "save_filters", user_id |-> user_id, lib |-> lib]
      failed == IsNone(user_filters[user_id]) /\ lib.single_raises
  IN
  /\ resp = NoResp /\ writes < MaxWrites
  /\ user_filters' = IF failed THEN user_filters
                     ELSE [user_filters EXCEPT ![user_id] = Some(filters)]
  /\ writes' = writes + 1
  /\ resp' = [req |-> req, status |-> IF failed THEN 500 ELSE 200]
  /\ UNCHANGED <<users, user_locations, user_blocks, matches, abuse_reports,
                 user_interests, user_lifestyle, user_goals, social>>

\* PUT /users/{user_id} with an age: every field that is not None is written
update_user(user_id, age) ==
  /\ resp = NoResp /\ writes < MaxWrites
  /\ users' = [users EXCEPT ![user_id].age = Some(age)]
  /\ writes' = writes + 1
  /\ resp' = [req |-> [op |-> "update_user", user_id |-> user_id],
              status |-> 200]
  /\ UNCHANGED <<user_locations, user_filters, user_blocks, matches,
                 abuse_reports, user_interests, user_lifestyle, user_goals, social>>

\* DELETE /users/{user_id}: soft delete
delete_user(user_id) ==
  /\ resp = NoResp /\ writes < MaxWrites
  /\ users' = [users EXCEPT ![user_id].deleted = TRUE]
  /\ writes' = writes + 1
  /\ resp' = [req |-> [op |-> "delete_user", user_id |-> user_id],
              status |-> 200]
  /\ UNCHANGED <<user_locations, user_filters, user_blocks, matches,
                 abuse_reports, user_interests, user_lifestyle, user_goals, social>>

\* the response leaves the server (analytics_middleware: return response)
Respond ==
  /\ resp # NoResp
  /\ resp' = NoResp
  /\ UNCHANGED <<store, social, writes>>

\* nothing has happened outside the feeds: no swipe, message or rewind is
\* stored and the rate limiter has seen no request
SocialIdle ==
  /\ user_actions = <<>>
  /\ calls = [u \in Users |-> None]
  /\ messages = <<>>
  /\ active_connections = {}
  /\ actions = <<>>
  /\ user_rewinds = {}
  /\ rate_limit_store = <<>>
  /\ now = 0
  /\ admitted = <<>>

\* ------------------------------------------------------------ feed store
\* the rows of the tables when the requests start: three kinds of user
\* (by id modulo 3); a block of 1 by 3, a report of 3 by 2 and a match of 1
\* and 2, each active or soft-deleted; possibly one unverified user or one
\* user without a location
InitAge(u) == IF u % 3 = 1 THEN Some(30)
              ELSE IF u % 3 = 2 THEN Some(60) ELSE None
InitValues(u) == IF u % 3 = 1 THEN {} ELSE {"honesty", "humor"}
InitInterests(u) == IF u % 3 = 1 THEN {1, 2}
                    ELSE IF u % 3 = 2 THEN {1} ELSE {1, 2, 3}
InitCoord(u) == IF u % 3 = 1 THEN <<0, 1>>
                ELSE IF u % 3 = 2 THEN <<1, 1>> ELSE <<4, 4>>

\* users of the first two kinds have filled in lifestyle and goals
InitLifestyle(u) ==
  IF u % 3 = 1
  THEN Some([smoking |-> "never", drinking |-> "socially", diet |-> "None",
             social_lifestyle |-> "None"])
  ELSE IF u % 3 = 2
  THEN Some([smoking |-> "never", drinking |-> "never", diet |-> "vegan",
             social_lifestyle |-> "None"])
  ELSE None
InitGoals(u) ==
  IF u % 3 = 0 THEN None
  ELSE Some([wants_kids |-> "yes", marriage_timeline |-> "None",
             relationship_type |-> "serious"])

InitFilters(u) == IF u % 3 = 1
                  THEN Some([min_age |-> 25, max_age |-> 35,
                             max_distance_km |-> 30])
                  ELSE None

Init ==
  /\ \E unverified \in {{}, {2}}, nowhere \in {{}, {3}} :
       /\ unverified = {} \/ nowhere = {}
       /\ users = [u \in Users |->
                     [age |-> IF u \in nowhere THEN Some(40) ELSE InitAge(u),
                      is_verified |-> u \notin unverified,
                      deleted |-> FALSE, values |-> InitValues(u)]]
       /\ user_locations =
            [u \in Users |->
               IF u \in nowhere THEN None ELSE Some(InitCoord(u))]
  /\ user_filters = [u \in Users |-> InitFilters(u)]
  /\ \E d \in BOOLEAN :
       /\ user_blocks = {[blocker_id |-> 3, blocked_id |-> 1, deleted |-> d]}
       /\ abuse_reports =
            {[reporter_id |-> 2, reported_id |-> 3, deleted |-> d]}
  /\ \E d \in BOOLEAN :
       matches = {[id |-> 1, user1 |-> 1, user2 |-> 2, deleted |-> d,
                   reveal_user1 |-> FALSE, reveal_user2 |-> FALSE]}
  /\ user_interests = [u \in Users |-> InitInterests(u)]
  /\ user_lifestyle = [u \in Users |-> InitLifestyle(u)]
  /\ user_goals = [u \in Users |-> InitGoals(u)]
  /\ writes = 0
  /\ resp = NoResp
  /\ SocialIdle

Next ==
  \/ \E u \in Users, km \in DistanceKms, limit \in 1..MaxLimit,
        offset \in 0..MaxOffset, sort_by \in SortKeys, lib \in Libs :
       Discovery(u, km, limit, offset, sort_by, lib)
  \/ \E u \in Users, limit \in 1..MaxLimit, offset \in 0..MaxOffset,
        lib \in SingleLibs :
       Recommendations(u, limit, offset, lib)
  \/ \E u \in Users, limit \in 1..MaxLimit, offset \in 0..MaxOffset,
        lib \in SingleLibs :
       ServiceRecommendations(u, limit, offset, lib)
  \/ \E a \in Users, b \in Users, lib \in SingleLibs : Score(a, b, lib)
  \/ \E u \in Users, c \in LocationInputs : update_location(u, c)
  \/ \E u \in Users, f \in FilterInputs, lib \in SingleLibs :
       save_filters(u, f, lib)
  \/ \E u \in Users, age \in AgeInputs : update_user(u, age)
  \/ \E u \in Users : delete_user(u)
  \/ Respond

Spec == Init /\ [][Next]_vars

\* ------------------------------------------- a row vanishing mid-request
\* The recommendation feeds read the pool first and the users row of each
\* kept candidate again while scoring; permanently_delete_user, run by a
\* scheduled job, removes a users row in between.  A request in flight
\* holds the rows it kept.
InFlight == "candidates" \in DOMAIN resp

RecommendationsEnumerate(user_id, limit, offset, lib) ==
  LET req == [op |-> "recommendations", user_id |-> user_id,
              limit |-> limit, offset |-> offset, lib |-> lib]
  IN
  /\ resp = NoResp
  /\ resp' = IF ~IsNone(RouterError(req, user_filters))
             THEN Val(RouterError(req, user_filters))
             ELSE [req |-> req,
                   candidates |-> RouterCandidates(req, user_filters)]
  /\ UNCHANGED <<store, social, writes>>

ServiceEnumerate(user_id, limit, offset, lib) ==
  LET req == [op |-> "get_recommendations", user_id |-> user_id,
              limit |-> limit, offset |-> offset, lib |-> lib]
  IN
  /\ resp = NoResp
  /\ resp' = IF ~IsNone(ServiceError(req, user_filters))
             THEN Val(ServiceError(req, user_filters))
             ELSE [req |-> req,
                   candidates |-> ServiceCandidates(req, user_filters)]
  /\ UNCHANGED <<store, social, writes>>

\* the scoring loop and the rest of the handler
FinishScoring ==
  /\ InFlight
  /\ resp' = IF resp.req.op = "recommendations"
             THEN RouterScore(resp.req, resp.candidates)
             ELSE ServiceScore(resp.req, resp.candidates)
  /\ UNCHANGED <<store, social, writes>>

\* gdpr.permanently_delete_user(user_id), its time having come: the users
\* row is deleted; the deletes that follow name tables and columns the
\* feeds do not read
permanently_delete_user(user_id) ==
  /\ resp = NoResp \/ InFlight
  /\ writes < MaxWrites
  /\ user_id \in DOMAIN users
  /\ users' = [u \in DOMAIN users \ {user_id} |-> users[u]]
  /\ writes' = writes + 1
  /\ UNCHANGED <<user_locations, user_filters, user_blocks, matches,
                 abuse_reports, user_interests, user_lifestyle, user_goals,
                 resp, social>>

NextRace ==
  \/ \E u \in Users, limit \in 1..MaxLimit, offset \in 0..MaxOffset,
        lib \in SingleLibs :
       RecommendationsEnumerate(u, limit, offset, lib)
  \/ \E u \in Users, limit \in 1..MaxLimit, offset \in 0..MaxOffset,
        lib \in SingleLibs :
       ServiceEnumerate(u, limit, offset, lib)
  \/ FinishScoring
  \/ \E u \in Users : permanently_delete_user(u)
  \/ Respond

SpecRace == Init /\ [][NextRace]_vars

\* ------------------------------------------------------- scoring alone
\* calculate_compatibility_score applied to the pairs of users 1 and 2 and
\* of an id that has no users row, over every combination of the rows below
NoSuchUser == 0
ScoreIds == {NoSuchUser, 1, 2}
InterestSets == SUBSET (1..MaxInterests)
ValueSets == {{}, {"honesty"}, {"kindness"}, {"honesty", "humor"}}
LifestyleRows ==
  {[smoking |-> "never", drinking |-> "socially", diet |-> "None",
    social_lifestyle |-> "None"],
   [smoking |-> "never", drinking |-> "never", diet |-> "vegan",
    social_lifestyle |-> "None"]}
GoalsRows ==
  {[wants_kids |-> "yes", marriage_timeline |-> "None",
    relationship_type |-> "serious"],
   [wants_kids |-> "no", marriage_timeline |-> "None",
    relationship_type |-> "serious"]}
\* the rows user 1 can hold
ScoreLifestyle1 == [smoking |-> "never", drinking |-> "socially",
                    diet |-> "None", social_lifestyle |-> "None"]
ScoreGoals1 == [wants_kids |-> "yes", marriage_timeline |-> "None",
                relationship_type |-> "serious"]

ScoreInit ==
  /\ \E v1 \in {{}, {"honesty", "humor"}}, v2 \in ValueSets :
       users = [u \in Users |->
                  [age |-> InitAge(u), is_verified |-> TRUE,
                   deleted |-> FALSE,
                   values |-> IF u = 1 THEN v1
                              ELSE IF u = 2 THEN v2 ELSE InitValues(u)]]
  /\ \E l1 \in {None, Some(<<0, 0>>)},
        l2 \in {None} \cup {Some(c) : c \in Coords} :
       user_locations = [u \in Users |->
                           IF u = 1 THEN l1
                           ELSE IF u = 2 THEN l2 ELSE Some(InitCoord(u))]
  /\ user_filters = [u \in Users |-> None]
  /\ user_blocks = {}
  /\ matches = {}
  /\ abuse_reports = {}
  /\ \E i1 \in InterestSets, i2 \in InterestSets :
       user_interests = [u \in Users |->
                           IF u = 1 THEN i1
                           ELSE IF u = 2 THEN i2 ELSE InitInterests(u)]
  /\ \E s1 \in {None, Some(ScoreLifestyle1)},
        s2 \in {None} \cup {Some(r) : r \in LifestyleRows} :
       user_lifestyle = [u \in Users |->
                           IF u = 1 THEN s1 ELSE IF u = 2 THEN s2 ELSE None]
  /\ \E g1 \in {None, Some(ScoreGoals1)},
        g2 \in {None} \cup {Some(r) : r \in GoalsRows} :
       user_goals = [u \in Users |->
                       IF u = 1 THEN g1 ELSE IF u = 2 THEN g2 ELSE None]
  /\ writes = 0
  /\ resp = NoResp
  /\ SocialIdle

NextScore ==
  \/ \E a \in ScoreIds, b \in ScoreIds, lib \in SingleLibs : Score(a, b, lib)
  \/ Respond

SpecScore == ScoreInit /\ [][NextScore]_vars

\* ================================================================ claims
\* the response in hand is a result page of one of the three feeds
DiscoveryPage == resp.req.op = "discovery" /\ resp.status = 200
RouterPage == resp.req.op = "recommendations" /\ resp.status = 200
ServicePage == resp.req.op = "get_recommendations"
FeedPage == DiscoveryPage \/ RouterPage \/ ServicePage

Viewer == resp.req.user_id
PageIds == {resp.data[i].id : i \in 1..Len(resp.data)}

\* the ids a viewer must never be shown, read off the tables: the viewer,
\* the ids of the viewer's active blocks and reports, and the other side of
\* every non-deleted match of the viewer
ActivelyBlocked(v) ==
  {x \in Users : \E b \in user_blocks :
     b.blocker_id = v /\ b.blocked_id = x /\ ~b.deleted}
ActivelyMatched(v) ==
  {x \in Users : \E m \in matches :
     /\ ~m.deleted
     /\ (m.user1 = v /\ m.user2 = x) \/ (m.user2 = v /\ m.user1 = x)}
ActivelyReported(v) ==
  {x \in Users : \E r \in abuse_reports :
     r.reporter_id = v /\ r.reported_id = x /\ ~r.deleted}
MustExclude(v) ==
  {v} \cup ActivelyBlocked(v) \cup ActivelyMatched(v) \cup ActivelyReported(v)

\* C1: no result page of the discovery feed, of the recommendation router or
\* of the service get_recommendations lists the viewer, an id the viewer has
\* actively blocked or reported, or the other side of a non-deleted match of
\* the viewer.
ExclusionCompleteness ==
  FeedPage => PageIds \cap MustExclude(Viewer) = {}

\* C2: every candidate of every discovery or recommendation result page is
\* verified and not soft-deleted.
OnlyVerifiedActiveCandidates ==
  FeedPage => \A c \in PageIds : users[c].is_verified /\ ~users[c].deleted

\* C2 witness: a non-empty page while another user, whom nothing else would
\* exclude, is unverified or soft-deleted.
OnlyVerifiedActiveWitness ==
  /\ FeedPage /\ resp.data # <<>>
  /\ \E u \in Users \ MustExclude(Viewer) :
       ~users[u].is_verified \/ users[u].deleted

\* C3: in a recommendation page of a viewer with a saved filter row, every
\* listed candidate that has an age value has it inside [min_age, max_age].
SavedAgeBandRespected ==
  ((RouterPage \/ ServicePage) /\ ~IsNone(user_filters[Viewer])) =>
    \A c \in PageIds :
      ~IsNone(users[c].age) =>
        /\ Val(user_filters[Viewer]).min_age <= Val(users[c].age)
        /\ Val(users[c].age) <= Val(user_filters[Viewer]).max_age

\* the documented defaults of a filter row (schemas.UserFilters)
DefaultFilters == [min_age |-> 18, max_age |-> 50, max_distance_km |-> 30]

\* C4: for a viewer without a saved filter row, whose no-row lookup returns
\* empty data, the recommendation router and the service answer exactly as
\* they would had the viewer saved a row holding the defaults.
DefaultsAppliedWithoutFilters ==
  LET withDefaults ==
        [user_filters EXCEPT ![Viewer] = Some(DefaultFilters)]
  IN /\ (resp.req.op = "recommendations"
         /\ IsNone(user_filters[Viewer]) /\ ~resp.req.lib.single_raises)
        => resp = get_user_recommendations(resp.req, withDefaults)
     /\ (resp.req.op = "get_recommendations"
         /\ IsNone(user_filters[Viewer]) /\ ~resp.req.lib.single_raises)
        => resp = get_recommendations(resp.req, withDefaults)

\* the radius that applies to a recommendation request: the saved
\* max_distance_km, 30 without a saved row
ApplicableRadiusKm(v) ==
  IF IsNone(user_filters[v]) THEN 30 ELSE Val(user_filters[v]).max_distance_km

\* C5: when the viewer and a listed candidate both have a recorded
\* coordinate, the candidate is within the applicable radius: the request's
\* distance_km in a discovery page, the saved max_distance_km (default 30)
\* in a recommendation page.
RadiusRespected ==
  /\ DiscoveryPage =>
       \A c \in PageIds :
         (~IsNone(user_locations[Viewer]) /\ ~IsNone(user_locations[c])) =>
           geodesic(Val(user_locations[Viewer]), Val(user_locations[c]))
             <= resp.req.distance_km * 1000
  /\ RouterPage =>
       \A c \in PageIds :
         (~IsNone(user_locations[Viewer]) /\ ~IsNone(user_locations[c])) =>
           haversine_distance(Val(user_locations[Viewer]),
                              Val(user_locations[c]))
             <= ApplicableRadiusKm(Viewer) * 1000

\* the score by which a page sorted by compatibility is ranked
RankScore(e) ==
  IF resp.req.op = "discovery" THEN e.match_percentage
  ELSE IF resp.req.op = "recommendations" THEN e.compatibility_score
  ELSE e.score
RankedPage ==
  \/ DiscoveryPage /\ resp.req.sort_by = "compatibility"
  \/ RouterPage
  \/ ServicePage

\* C6: a page sorted by compatibility is in descending order of score.
SortedByCompatibility ==
  RankedPage =>
    \A i \in 1..(Len(resp.data) - 1) :
      RankScore(resp.data[i]) >= RankScore(resp.data[i + 1])

\* C6 witness: a ranked page of two candidates with different scores, the
\* better one being the later row of the users table.
SortedByCompatibilityWitness ==
  /\ RankedPage /\ Len(resp.data) >= 2
  /\ RankScore(resp.data[1]) > RankScore(resp.data[2])
  /\ resp.data[1].id > resp.data[2].id

\* C7: the page of a discovery or recommendation response has
\* min(limit, total - offset) entries when offset < total, and none when
\* offset >= total (the response is still a 200).
PageLength ==
  (DiscoveryPage \/ RouterPage) =>
    Len(resp.data) = IF resp.req.offset < resp.total
                     THEN Min(resp.req.limit, resp.total - resp.req.offset)
                     ELSE 0

\* C7 witness: a page cut short by the limit, more candidates remaining
PageLengthWitness ==
  /\ DiscoveryPage \/ RouterPage
  /\ resp.req.offset + resp.req.limit < resp.total
  /\ Len(resp.data) = resp.req.limit

\* the candidates that survive exclusion and filtering, read off the tables
DiscoverySurvivors(v, km) ==
  {u \in Users \ MustExclude(v) :
     /\ users[u].is_verified /\ ~users[u].deleted
     /\ geodesic(Val(user_locations[v]), Val(user_locations[u])) <= km * 1000}
RouterSurvivors(v) ==
  {u \in Users \ MustExclude(v) :
     /\ users[u].is_verified /\ ~users[u].deleted
     /\ RouterKeeps(v, u, user_filters[v])}

\* C8: total is the number of candidates that survive exclusion and
\* filtering, whatever the limit and the offset of the request.
TotalCountsSurvivors ==
  /\ DiscoveryPage =>
       resp.total = Cardinality(DiscoverySurvivors(Viewer, resp.req.distance_km))
  /\ RouterPage => resp.total = Cardinality(RouterSurvivors(Viewer))

\* C8 witness: a page at a positive offset that holds fewer entries than
\* total counts.
TotalCountsSurvivorsWitness ==
  /\ DiscoveryPage \/ RouterPage
  /\ resp.req.offset > 0
  /\ Len(resp.data) > 0 /\ Len(resp.data) < resp.total

\* C9: a discovery request of a viewer without a recorded coordinate is
\* answered with the 400 "User location not set".
LocationNotSetIs400 ==
  (resp.req.op = "discovery" /\ IsNone(user_locations[Viewer])) =>
    resp.status = 400

\* C10: the score returned by calculate_compatibility_score lies in the
\* closed range [0, 100] (in score units, [0, 100 * Unit]).
ScoreInRange ==
  resp.req.op = "calculate_compatibility_score" =>
    /\ 0 <= resp.score
    /\ resp.score <= 100 * Unit

\* C10 witness: the top of the range is attained by two users that agree on
\* every factor.
ScoreInRangeWitness ==
  /\ resp.req.op = "calculate_compatibility_score"
  /\ resp.req.user1_id # resp.req.user2_id
  /\ resp.score = 100 * Unit

\* ------------------------------------------------ claims about the scorer
ScoreCall == resp.req.op = "calculate_compatibility_score"
User1 == resp.req.user1_id
User2 == resp.req.user2_id
BothHaveRows == HasUserRow(User1) /\ HasUserRow(User2)

\* C11: the two outputs of calculate_compatibility_score are the same
\* number, on the success path and on every failure path.
ScoreEqualsMatchPercentage ==
  ScoreCall => resp.match_percentage = resp.score

\* C11 witness: a success path whose score is not a whole number of
\* hundredths, and so differs from its own rounding.
ScoreEqualsMatchPercentageWitness ==
  /\ ScoreCall /\ BothHaveRows
  /\ resp.score > 0 /\ Round2(resp.score) # resp.score
  /\ resp.match_percentage = resp.score

\* C12: for a fixed store, the score of (A, B) is the score of (B, A).
ScoreSymmetric ==
  ScoreCall =>
    resp.score = calculate_compatibility_score(User2, User1, resp.req.lib)[1]

\* C12 witness: two different users with interest sets of different sizes
\* that share an interest, and a positive score.
ScoreSymmetricWitness ==
  /\ ScoreCall /\ BothHaveRows /\ User1 # User2
  /\ Cardinality(user_interests[User1]) # Cardinality(user_interests[User2])
  /\ user_interests[User1] \cap user_interests[User2] # {}
  /\ resp.score > 0

\* both users have the record and the two records are equal
SameLifestyle ==
  /\ ~IsNone(user_lifestyle[User1])
  /\ user_lifestyle[User1] = user_lifestyle[User2]
SameGoals ==
  /\ ~IsNone(user_goals[User1])
  /\ user_goals[User1] = user_goals[User2]
SameCoordinates ==
  /\ ~IsNone(user_locations[User1])
  /\ user_locations[User1] = user_locations[User2]

\* C13 as stated: two users with identical interest sets, identical values
\* sets, identical lifestyle, identical goals and coincident coordinates
\* score 100.
IdenticalProfilesScore100 ==
  (/\ ScoreCall /\ BothHaveRows /\ User1 # User2
   /\ user_interests[User1] = user_interests[User2]
   /\ users[User1].values = users[User2].values
   /\ SameLifestyle /\ SameGoals /\ SameCoordinates)
  => resp.score = 100 * Unit

\* C13 amended: two users with identical non-empty interest sets, identical
\* non-empty values sets, identical lifestyle, identical goals and
\* coincident coordinates score 100.
IdenticalNonEmptyProfilesScore100 ==
  (/\ ScoreCall /\ BothHaveRows /\ User1 # User2
   /\ user_interests[User1] # {}
   /\ user_interests[User1] = user_interests[User2]
   /\ users[User1].values # {}
   /\ users[User1].values = users[User2].values
   /\ SameLifestyle /\ SameGoals /\ SameCoordinates)
  => resp.score = 100 * Unit

\* C13 witness: two different users that agree, with non-empty sets and
\* records that hold null columns, and the score 100 they get.
IdenticalNonEmptyProfilesWitness ==
  /\ ScoreCall /\ BothHaveRows /\ User1 # User2
  /\ user_interests[User1] # {}
  /\ user_interests[User1] = user_interests[User2]
  /\ users[User1].values # {}
  /\ users[User1].values = users[User2].values
  /\ SameLifestyle /\ SameGoals /\ SameCoordinates
  /\ Val(user_lifestyle[User1]).diet = "None"
  /\ resp.score = 100 * Unit

\* neither user has the record
NoFactorRecords ==
  /\ IsNone(user_lifestyle[User1]) /\ IsNone(user_lifestyle[User2])
  /\ IsNone(user_goals[User1]) /\ IsNone(user_goals[User2])
  /\ IsNone(user_locations[User1]) /\ IsNone(user_locations[User2])

\* C14: two existing users with disjoint interest sets, disjoint values
\* sets, no lifestyle record, no goals record and no coordinates score 0.
DisjointProfilesScore0 ==
  (/\ ScoreCall /\ BothHaveRows
   /\ user_interests[User1] \cap user_interests[User2] = {}
   /\ users[User1].values \cap users[User2].values = {}
   /\ NoFactorRecords)
  => resp.score = 0

\* C14 witness: two users whose interest sets and values sets are non-empty
\* and disjoint, scored 0 by a client that returns empty data for a missing
\* record.
DisjointProfilesWitness ==
  /\ ScoreCall /\ BothHaveRows /\ ~resp.req.lib.single_raises
  /\ user_interests[User1] # {} /\ user_interests[User2] # {}
  /\ user_interests[User1] \cap user_interests[User2] = {}
  /\ users[User1].values # {} /\ users[User2].values # {}
  /\ users[User1].values \cap users[User2].values = {}
  /\ NoFactorRecords
  /\ resp.score = 0

\* C15: when either user has no users row, both outputs are 0.
MissingProfileScoresZero ==
  (ScoreCall /\ ~BothHaveRows) =>
    resp.score = 0 /\ resp.match_percentage = 0

\* C15 witness: a user with a users row scored against an id without one.
MissingProfileWitness ==
  /\ ScoreCall
  /\ HasUserRow(User1) /\ ~HasUserRow(User2)
  /\ user_interests[User1] # {}
  /\ resp.score = 0 /\ resp.match_percentage = 0

\* the factors of the pair whose data is absent for at least one of the two
AbsentFactors ==
  {f \in {"interests", "location", "lifestyle", "goals"} :
     \/ f = "interests" /\ (user_interests[User1] = {}
                            \/ user_interests[User2] = {})
     \/ f = "location" /\ (IsNone(user_locations[User1])
                           \/ IsNone(user_locations[User2]))
     \/ f = "lifestyle" /\ (IsNone(user_lifestyle[User1])
                            \/ IsNone(user_lifestyle[User2]))
     \/ f = "goals" /\ (IsNone(user_goals[User1])
                        \/ IsNone(user_goals[User2]))}

\* what a factor contributes when its data is there
FactorContribution(f) ==
  IF f = "interests" THEN interest_score(User1, User2)
  ELSE IF f = "values" THEN values_score(User1, User2)
  ELSE IF f = "location" THEN location_score(User1, User2)
  ELSE IF f = "lifestyle" THEN lifestyle_score(User1, User2)
  ELSE goals_score(User1, User2)

RECURSIVE SumOfFactors(_)
SumOfFactors(F) ==
  IF F = {} THEN 0
  ELSE LET f == CHOOSE x \in F : TRUE
       IN FactorContribution(f) + SumOfFactors(F \ {f})

\* C16: when the data of exactly one factor (interests, location, lifestyle
\* record or goals record) is absent for a pair of existing users, the
\* score is the sum of the contributions of the other factors.
FactorAbsenceIsolated ==
  (/\ ScoreCall /\ BothHaveRows /\ User1 # User2
   /\ Cardinality(AbsentFactors) = 1) =>
    resp.score =
      SumOfFactors({"interests", "values", "location", "lifestyle", "goals"}
                     \ AbsentFactors)

\* --------------------------------------- claims about failures in a feed
FeedRequest ==
  resp.req.op \in {"discovery", "recommendations", "get_recommendations"}

\* scoring the pair fails: a record the scorer reads with single() outside
\* its inner try is missing and the client raises on it
ScoringFails(v, c) ==
  /\ resp.req.lib.single_raises
  /\ \/ IsNone(user_lifestyle[v]) \/ IsNone(user_lifestyle[c])
     \/ IsNone(user_goals[v]) \/ IsNone(user_goals[c])

\* the score a pair gets when nothing fails
NormalScore(v, c) ==
  interest_score(v, c) + values_score(v, c) + location_score(v, c)
  + lifestyle_score(v, c) + goals_score(v, c)

\* the request cannot get the viewer's own data or the candidate pool: the
\* viewer has no coordinate (discovery, router), a pool user has none or
\* the match rows cannot be joined (discovery), the lookup of the viewer's
\* filter row raises (router, service)
AcquisitionFails ==
  \/ /\ resp.req.op = "discovery"
     /\ \/ IsNone(user_locations[Viewer])
        \/ \E u \in AllUsers \ {Viewer} : IsNone(user_locations[u])
        \/ resp.req.lib.extend_raises
  \/ /\ resp.req.op = "recommendations"
     /\ \/ IsNone(user_locations[Viewer])
        \/ IsNone(user_filters[Viewer]) /\ resp.req.lib.single_raises
  \/ /\ resp.req.op = "get_recommendations"
     /\ IsNone(user_filters[Viewer]) /\ resp.req.lib.single_raises

\* the score an entry of the page in hand is listed with
ListedScore(e) ==
  IF resp.req.op = "discovery" THEN e.match_percentage
  ELSE IF resp.req.op = "recommendations" THEN e.compatibility_score
  ELSE e.score
ExpectedListedScore(c) ==
  IF ScoringFails(Viewer, c) THEN 0
  ELSE IF resp.req.op = "get_recommendations" THEN NormalScore(Viewer, c)
  ELSE Round2(NormalScore(Viewer, c))

\* C17: a feed request whose pool and viewer data are acquired answers with
\* a page (the routers with a 200 that counts every surviving candidate),
\* in which a candidate whose scoring failed is listed with score 0 and
\* every other candidate with its normal score.
ScoringFailureAbsorbed ==
  (FeedRequest /\ ~AcquisitionFails) =>
    /\ FeedPage
    /\ DiscoveryPage =>
         resp.total =
           Cardinality(DiscoverySurvivors(Viewer, resp.req.distance_km))
    /\ RouterPage => resp.total = Cardinality(RouterSurvivors(Viewer))
    /\ \A i \in 1..Len(resp.data) :
         ListedScore(resp.data[i]) = ExpectedListedScore(resp.data[i].id)

\* C17 witness: a page of two candidates, the scoring of one having failed
\* (listed with 0) and the other one listed first with its positive score.
ScoringFailureAbsorbedWitness ==
  /\ FeedPage /\ Len(resp.data) = 2
  /\ ~ScoringFails(Viewer, resp.data[1].id)
  /\ ListedScore(resp.data[1]) > 0
  /\ ScoringFails(Viewer, resp.data[2].id)
  /\ ListedScore(resp.data[2]) = 0

\* C19: a feed request that cannot get the candidate pool or the viewer's
\* own data is answered with a visible failure, never with a (possibly
\* empty) result.
AcquisitionFailurePropagates ==
  (FeedRequest /\ AcquisitionFails) =>
    /\ "data" \notin DOMAIN resp
    /\ "status" \in DOMAIN resp /\ resp.status >= 400

\* a candidate passes the viewer's filters: the request's distance_km in
\* discovery; the saved (or default) age band and radius in the router, a
\* candidate without an age or without a coordinate passing
PassesFilters(v, u) ==
  IF resp.req.op = "discovery"
  THEN geodesic(Val(user_locations[v]), Val(user_locations[u]))
         <= resp.req.distance_km * 1000
  ELSE LET f == IF IsNone(user_filters[v]) THEN DefaultFilters
                ELSE Val(user_filters[v])
       IN /\ IsNone(users[u].age)
             \/ (f.min_age <= Val(users[u].age)
                 /\ Val(users[u].age) <= f.max_age)
          /\ IsNone(user_locations[u])
             \/ haversine_distance(Val(user_locations[v]),
                                   Val(user_locations[u]))
                  <= f.max_distance_km * 1000

\* the page in hand shows the whole unpaginated result
WholeResult ==
  /\ DiscoveryPage \/ RouterPage
  /\ resp.req.offset = 0 /\ resp.total <= resp.req.limit

VanishedCandidateExcluded ==
  (~InFlight /\ (RouterPage \/ ServicePage)) =>
    \A c \in PageIds : HasUserRow(c)

\* a candidate has an age inside the viewer's saved, or else the default,
\* age band
InsideAgeBand(v, u) ==
  LET f == IF IsNone(user_filters[v]) THEN DefaultFilters
           ELSE Val(user_filters[v])
  IN /\ ~IsNone(users[u].age)
     /\ f.min_age <= Val(users[u].age) /\ Val(users[u].age) <= f.max_age

\* the page in hand shows the whole scored result of the recommendation
\* router (total within the limit) or of the service (the page not full)
WholeRecommendations ==
  /\ resp.req.op \in {"recommendations", "get_recommendations"}
  /\ ~AcquisitionFails
  /\ resp.req.offset = 0
  /\ IF RouterPage THEN resp.total <= resp.req.limit
     ELSE ServicePage /\ Len(resp.data) < resp.req.limit

\* C21: in the recommendation feed (router and service) a verified,
\* non-deleted, non-excluded candidate whose age is inside the age band
\* and who has no recorded coordinate is part of the scored result: the
\* distance filter is skipped for it.
NoCoordinateIncluded ==
  WholeRecommendations =>
    \A u \in AllUsers \ MustExclude(Viewer) :
      (InsideAgeBand(Viewer, u) /\ IsNone(user_locations[u]))
        => u \in PageIds

\* C21 witness: a router page that lists a candidate inside the age band
\* who has no coordinate.
NoCoordinateIncludedWitness ==
  /\ RouterPage /\ WholeRecommendations
  /\ \E u \in PageIds :
       InsideAgeBand(Viewer, u) /\ IsNone(user_locations[u])

\* C22: a page of a discovery request sorted by distance is ordered nearest
\* first: the distance_km of consecutive entries never decreases.
SortedByDistance ==
  (DiscoveryPage /\ resp.req.sort_by = "distance") =>
    \A i \in 1..(Len(resp.data) - 1) :
      resp.data[i].distance_km <= resp.data[i + 1].distance_km

\* C22 witness: a page sorted by distance whose nearer candidate is the
\* later row of the users table.
SortedByDistanceWitness ==
  /\ DiscoveryPage /\ resp.req.sort_by = "distance"
  /\ Len(resp.data) >= 2
  /\ resp.data[1].distance_km < resp.data[2].distance_km
  /\ resp.data[1].id > resp.data[2].id

\* the records the feeds and the scorer read
Records ==
  <<users, user_locations, user_filters, user_blocks, matches, abuse_reports>>

\* C23: a discovery request, a recommendation request (router or service)
\* and a single-pair compatibility lookup leave the user, location, filter,
\* block, match and report records as they were, whether the request
\* succeeds or fails.
ReadersLeaveRecords ==
  [][(resp = NoResp /\ resp' # NoResp
      /\ resp'.req.op \in {"discovery", "recommendations",
                            "get_recommendations",
                            "calculate_compatibility_score"})
       => Records' = Records]_vars

\* C23 witness: the answer of a failed feed request is in hand.
ReadersLeaveRecordsWitness ==
  /\ FeedRequest
  /\ "status" \in DOMAIN resp /\ resp.status >= 400

\* the interest ids and value tags an element can be added from
AnyInterest == 1..(MaxInterests + 1)
AnyValue == {"honesty", "kindness", "humor", "loyalty"}

\* C24: for the interest sets (weight 40) and the values sets (weight 30)
\* of the pair just scored, adding one element that is in neither set to
\* both sets gives a score greater than or equal to the score of the sets
\* as they are.
OverlapMonotonic ==
  (ScoreCall /\ BothHaveRows) =>
    LET A == user_interests[User1]
        B == user_interests[User2]
        V == users[User1].values
        W == users[User2].values
    IN /\ \A x \in AnyInterest \ (A \cup B) :
            OverlapScore(A \cup {x}, B \cup {x}, 40)
              >= interest_score(User1, User2)
       /\ \A x \in AnyValue \ (V \cup W) :
            OverlapScore(V \cup {x}, W \cup {x}, 30)
              >= values_score(User1, User2)

\* C24 witness: a scored pair of users with non-empty, different interest
\* sets, whose interest score rises with an added shared interest.
OverlapMonotonicWitness ==
  /\ ScoreCall /\ BothHaveRows /\ User1 # User2
  /\ user_interests[User1] # {} /\ user_interests[User2] # {}
  /\ \E x \in AnyInterest \ (user_interests[User1] \cup user_interests[User2]) :
       OverlapScore(user_interests[User1] \cup {x},
                    user_interests[User2] \cup {x}, 40)
         > interest_score(User1, User2)

\* ------------------------------------------------------------------ swipes
\* The query client once more.  .single().execute() answers with the row
\* when the query has exactly one; on no row it raises or answers with
\* data None (lib.single_raises); on several rows it raises.  or_() takes
\* one filter string and, as its second argument, the name of an embedded
\* table to apply it to: called with two filter strings (swipe.py:24-27,
\* 35-38) it either raises (lib.or_raises) or leaves the rows of the table
\* itself unfiltered.
MaxActions == 4

Single(rows, lib) ==
  IF Cardinality(rows) = 1 THEN "row"
  ELSE IF rows = {} /\ ~lib.single_raises THEN "none"
  ELSE "raise"

SwipeLibs ==
  {l \in [single_raises : BOOLEAN, or_raises : BOOLEAN] :
     ~(l.single_raises /\ l.or_raises)}

\* the users who swipe on each other
Swipers == {1, 2}

\* ids of the non-deleted rows of user_actions of one user on another, of
\* one type
ActiveActions(user_id, target_user_id, action_type) ==
  {i \in DOMAIN user_actions :
     /\ user_actions[i].user_id = user_id
     /\ user_actions[i].target_user_id = target_user_id
     /\ user_actions[i].action_type = action_type
     /\ ~user_actions[i].deleted}

\* user_actions.insert({...}): created_at is the time of the insert
InsertAction(user_id, target_user_id, action_type) ==
  Append(user_actions,
         [user_id |-> user_id, target_user_id |-> target_user_id,
          action_type |-> action_type, deleted |-> FALSE,
          match_id |-> None])

\* a check of like_user that lets a second like of the same target through
ExistingLikeMutant(user_id, target_user_id, lib) == "none"
\* existing_action of like_user
ExistingLike(user_id, target_user_id, lib) ==
  Single(ActiveActions(user_id, target_user_id, "like"), lib)

\* like_user up to its first insert: the status it raises, or 0
LikeChecks(user_id, target_user_id, lib) ==
  LET target == Single({u \in {target_user_id} :
                          HasUserRow(u) /\ ~users[u].deleted}, lib)
      blocked == Single({b \in user_blocks : ~b.deleted}, lib)
      existing_action == ExistingLike(user_id, target_user_id, lib)
      existing_match == Single({m \in matches : ~m.deleted}, lib)
  IN IF user_id = target_user_id THEN 400
     ELSE IF target = "raise" THEN 500
     ELSE IF target = "none" THEN 404
     ELSE IF lib.or_raises \/ blocked = "raise" THEN 500
     ELSE IF blocked = "row" THEN 403
     ELSE IF existing_action = "raise" THEN 500
     ELSE IF existing_action = "row" THEN 409
     ELSE IF existing_match = "raise" THEN 500
     ELSE IF existing_match = "row" THEN 409
     ELSE 0

\* mutual_like of like_user, read from the table ua
MutualLike(ua, user_id, target_user_id, lib) ==
  Single({i \in DOMAIN ua :
            /\ ua[i].user_id = target_user_id
            /\ ua[i].target_user_id = user_id
            /\ ua[i].action_type = "like"
            /\ ~ua[i].deleted}, lib)

\* the matches row like_user inserts; its uuid4 id is a new one
NewMatch(user_id, target_user_id) ==
  [id |-> Cardinality(matches) + 1,
   user1 |-> Min(user_id, target_user_id),
   user2 |-> Max(user_id, target_user_id),
   deleted |-> FALSE, reveal_user1 |-> FALSE, reveal_user2 |-> FALSE]

\* the matches table after the last part of like_user, the like being in ua
MatchesAfterLike(ua, user_id, target_user_id, lib) ==
  IF MutualLike(ua, user_id, target_user_id, lib) = "row"
  THEN matches \cup {NewMatch(user_id, target_user_id)}
  ELSE matches

\* what like_user answers after its insert, the like being in ua
LikeAnswer(ua, user_id, target_user_id, lib) ==
  LET mutual_like == MutualLike(ua, user_id, target_user_id, lib)
  IN IF mutual_like = "raise" THEN [status |-> 500]
     ELSE [status |-> 200, mutual_match |-> mutual_like = "row"]

\* POST /swipe/{target_user_id}/like, served in one step
like_user(user_id, target_user_id, lib) ==
  LET req == [op |-> "like_user", user_id |-> user_id,
              target_user_id |-> target_user_id, lib |-> lib]
      code == LikeChecks(user_id, target_user_id, lib)
      ua == InsertAction(user_id, target_user_id, "like")
  IN
  /\ resp = NoResp /\ Len(user_actions) < MaxActions
  /\ IF code # 0
     THEN /\ resp' = [req |-> req, status |-> code]
          /\ UNCHANGED <<user_actions, matches>>
     ELSE /\ user_actions' = ua
          /\ matches' = MatchesAfterLike(ua, user_id, target_user_id, lib)
          /\ resp' = [req |-> req]
                       @@ LikeAnswer(ua, user_id, target_user_id, lib)
  /\ UNCHANGED <<users, user_locations, user_filters, user_blocks,
                 abuse_reports, user_interests, user_lifestyle, user_goals,
                 writes, calls, chat, rewinds,
                 limiter>>

\* POST /swipe/{target_user_id}/pass
pass_user(user_id, target_user_id, lib) ==
  LET req == [op |-> "pass_user", user_id |-> user_id,
              target_user_id |-> target_user_id, lib |-> lib]
      target == Single({u \in {target_user_id} :
                          HasUserRow(u) /\ ~users[u].deleted}, lib)
      existing_action ==
        Single(ActiveActions(user_id, target_user_id, "pass"), lib)
      code == IF user_id = target_user_id THEN 400
              ELSE IF target = "raise" THEN 500
              ELSE IF target = "none" THEN 404
              ELSE IF existing_action = "raise" THEN 500
              ELSE IF existing_action = "row" THEN 409
              ELSE 200
  IN
  /\ resp = NoResp /\ Len(user_actions) < MaxActions
  /\ user_actions' = IF code = 200
                     THEN InsertAction(user_id, target_user_id, "pass")
                     ELSE user_actions
  /\ resp' = [req |-> req, status |-> code]
  /\ UNCHANGED <<store, writes, calls, chat, rewinds,
                 limiter>>

\* the row undo_action reads: the newest row of the caller on the target,
\* whatever its type and whether deleted or not; 0 without one
LastAction(user_id, target_user_id) ==
  LET rows == {i \in DOMAIN user_actions :
                 /\ user_actions[i].user_id = user_id
                 /\ user_actions[i].target_user_id = target_user_id}
  IN IF rows = {} THEN 0 ELSE CHOOSE i \in rows : \A j \in rows : j <= i

\* POST /swipe/{target_user_id}/undo
undo_action(user_id, target_user_id, lib) ==
  LET req == [op |-> "undo_action", user_id |-> user_id,
              target_user_id |-> target_user_id, lib |-> lib]
      last == LastAction(user_id, target_user_id)
      code == IF user_id = target_user_id THEN 400
              ELSE IF last = 0
              THEN (IF lib.single_raises THEN 500 ELSE 404)
              ELSE 200
      action == user_actions[last]
  IN
  /\ resp = NoResp /\ Len(user_actions) < MaxActions
  /\ IF code # 200
     THEN /\ resp' = [req |-> req, status |-> code]
          /\ UNCHANGED <<user_actions, matches>>
     ELSE /\ matches' =
               IF action.action_type = "like" /\ ~IsNone(action.match_id)
               THEN {IF m.id = Val(action.match_id)
                     THEN [m EXCEPT !.deleted = TRUE] ELSE m : m \in matches}
               ELSE matches
          /\ user_actions' =
               Append([user_actions EXCEPT ![last].deleted = TRUE],
                      [user_id |-> user_id,
                       target_user_id |-> target_user_id,
                       action_type |-> "undo", deleted |-> FALSE,
                       match_id |-> None])
          /\ resp' = [req |-> req, status |-> 200,
                      original_action |-> action.action_type,
                      undone |-> last]
  /\ UNCHANGED <<users, user_locations, user_filters, user_blocks,
                 abuse_reports, user_interests, user_lifestyle, user_goals,
                 writes, calls, chat, rewinds,
                 limiter>>

\* the tables when the swiping starts: nobody has swiped and nobody is
\* matched; user 2 may have blocked user 1, actively or not, and user 2 may
\* be soft-deleted
SwipeInit ==
  /\ \E gone \in {{}, {2}} :
       users = [u \in Users |->
                  [age |-> InitAge(u), is_verified |-> TRUE,
                   deleted |-> u \in gone, values |-> InitValues(u)]]
  /\ user_locations = [u \in Users |-> Some(InitCoord(u))]
  /\ user_filters = [u \in Users |-> InitFilters(u)]
  /\ user_blocks \in
       {{}} \cup {{[blocker_id |-> 2, blocked_id |-> 1, deleted |-> d]} :
                    d \in BOOLEAN}
  /\ matches = {}
  /\ abuse_reports = {}
  /\ user_interests = [u \in Users |-> InitInterests(u)]
  /\ user_lifestyle = [u \in Users |-> InitLifestyle(u)]
  /\ user_goals = [u \in Users |-> InitGoals(u)]
  /\ writes = 0
  /\ resp = NoResp
  /\ SocialIdle

NextSwipe ==
  \/ \E u \in Swipers, t \in Swipers, lib \in SwipeLibs : like_user(u, t, lib)
  \/ \E u \in Swipers, t \in Swipers, lib \in SwipeLibs : pass_user(u, t, lib)
  \/ \E u \in Swipers, t \in Swipers, lib \in SwipeLibs :
       undo_action(u, t, lib)
  \/ Respond

SpecSwipe == SwipeInit /\ [][NextSwipe]_vars

\* ------------------------------------------------------- concurrent likes
\* like_user calls that overlap: each query and each insert of a call is a
\* request of its own to the database, so another call can run between the
\* checks, the insert of the like and the look for the mutual like
Call(u) == Val(calls[u])
AtPc(u, pc) == ~IsNone(calls[u]) /\ Call(u).pc = pc
LikesUnderWay == Cardinality({u \in Users : AtPc(u, "insert")})

\* lines 14-40: the checks
LikeBegin(user_id, target_user_id, lib) ==
  LET code == LikeChecks(user_id, target_user_id, lib) IN
  /\ IsNone(calls[user_id])
  /\ Len(user_actions) + LikesUnderWay < MaxActions
  /\ calls' = [calls EXCEPT ![user_id] =
                 Some([target_user_id |-> target_user_id, lib |-> lib,
                       pc |-> IF code = 0 THEN "insert" ELSE "done",
                       answer |-> [status |-> code]])]
  /\ UNCHANGED <<store, writes, resp, user_actions, chat, rewinds,
                 limiter>>

\* lines 42-47: the like is inserted
LikeInsert(user_id) ==
  /\ AtPc(user_id, "insert")
  /\ user_actions' =
       InsertAction(user_id, Call(user_id).target_user_id, "like")
  /\ calls' = [calls EXCEPT ![user_id] =
                 Some([Call(user_id) EXCEPT !.pc = "mutual"])]
  /\ UNCHANGED <<store, writes, resp, chat, rewinds,
                 limiter>>

\* lines 49-69: the look for the mutual like and the insert of the match
LikeMatch(user_id) ==
  LET c == Call(user_id) IN
  /\ AtPc(user_id, "mutual")
  /\ matches' = MatchesAfterLike(user_actions, user_id, c.target_user_id,
                                 c.lib)
  /\ calls' = [calls EXCEPT ![user_id] =
                 Some([c EXCEPT !.pc = "done",
                         !.answer = LikeAnswer(user_actions, user_id,
                                               c.target_user_id, c.lib)])]
  /\ UNCHANGED <<users, user_locations, user_filters, user_blocks,
                 abuse_reports, user_interests, user_lifestyle, user_goals,
                 writes, resp, user_actions, chat, rewinds,
                 limiter>>

\* the answer leaves the server
LikeReturn(user_id) ==
  /\ AtPc(user_id, "done")
  /\ calls' = [calls EXCEPT ![user_id] = None]
  /\ UNCHANGED <<store, writes, resp, user_actions, chat, rewinds,
                 limiter>>

NextSwipeRace ==
  \/ \E u \in Swipers, t \in Swipers, lib \in SwipeLibs : LikeBegin(u, t, lib)
  \/ \E u \in Swipers : LikeInsert(u)
  \/ \E u \in Swipers : LikeMatch(u)
  \/ \E u \in Swipers : LikeReturn(u)

SpecSwipeRace == SwipeInit /\ [][NextSwipeRace]_vars

\* ------------------------------------------------------ claims on swipes
ActiveMatches(a, b) ==
  {m \in matches : ~m.deleted /\ {m.user1, m.user2} = {a, b}}

\* C25: whatever the interleaving of like_user calls, no two non-deleted
\* match rows join the same pair of users, and every match row has the
\* smaller id of its pair as user1 and the larger as user2.
OneMatchPerPair ==
  /\ \A a \in Users, b \in Users : Cardinality(ActiveMatches(a, b)) <= 1
  /\ \A m \in matches : m.user1 < m.user2

\* the like_user call whose answer is in hand has recorded its like
LikeRecorded ==
  /\ resp = NoResp /\ resp' # NoResp /\ resp'.req.op = "like_user"
  /\ user_actions' # user_actions

\* two users are blocked: one has an active block on the other
BlockedPair(a, b) ==
  \E r \in user_blocks :
    ~r.deleted /\ {r.blocker_id, r.blocked_id} = {a, b}

\* a like of a on b was issued at some time
IssuedLike(a, b) ==
  \E i \in DOMAIN user_actions :
    /\ user_actions[i].user_id = a /\ user_actions[i].target_user_id = b
    /\ user_actions[i].action_type = "like"

MatchesAreMutual ==
  \A m \in matches :
    ~m.deleted => IssuedLike(m.user1, m.user2) /\ IssuedLike(m.user2, m.user1)

\* C26: a like_user call that records its like creates a match, and
\* answers mutual_match = true, exactly when the target held an active like
\* on the caller when the call was made, and a call that records no like
\* creates no match; the like it records is not on the caller, not on a
\* blocked pair and not on a target the caller holds an active like on;
\* every active match joins two users who each issued a like on the other.
LikeMatchesExactlyMutual ==
  /\ []MatchesAreMutual
  /\ [][/\ LikeRecorded =>
             LET u == resp'.req.user_id
                 t == resp'.req.target_user_id
                 held == ActiveActions(t, u, "like") # {}
             IN /\ held <=> (\E m \in matches' \ matches :
                               ~m.deleted /\ {m.user1, m.user2} = {u, t})
                /\ held <=> (resp'.status = 200 /\ resp'.mutual_match)
                /\ u # t
                /\ ~BlockedPair(u, t)
                /\ ActiveActions(u, t, "like") = {}
        /\ (resp = NoResp /\ user_actions' = user_actions)
             => matches' = matches]_vars

\* C26 witness: the second of two likes has been answered with
\* mutual_match = true and the pair has its match.
LikeMatchesExactlyMutualWitness ==
  /\ resp.req.op = "like_user" /\ resp.status = 200 /\ resp.mutual_match
  /\ ActiveMatches(resp.req.user_id, resp.req.target_user_id) # {}
  /\ ActiveActions(resp.req.target_user_id, resp.req.user_id, "like") # {}

\* the like in row i of user_actions produced a match: the target had
\* liked the caller before, and the two are matched
ProducedMatch(i) ==
  LET a == user_actions[i] IN
  /\ a.action_type = "like"
  /\ \E j \in 1..(i - 1) :
       /\ user_actions[j].user_id = a.target_user_id
       /\ user_actions[j].target_user_id = a.user_id
       /\ user_actions[j].action_type = "like"
  /\ ActiveMatches(a.user_id, a.target_user_id) # {}

\* C27: when undo_action succeeds on a like that had produced a match, no
\* active match between the caller and the target remains.
UndoDeletesMatch ==
  [][(/\ resp = NoResp /\ resp' # NoResp
      /\ resp'.req.op = "undo_action" /\ resp'.status = 200
      /\ ProducedMatch(resp'.undone))
       => \A m \in matches' :
            {m.user1, m.user2}
               = {resp'.req.user_id, resp'.req.target_user_id}
              => m.deleted]_vars

\* ---------------------------------------------------------------- messages
MaxMessages == 2

\* the match ids a request can name: the stored match and an unknown one
MatchIds == {1, 2}
Contents == {"", "hi"}

\* matches ... .eq("id", match_id).single().execute().data
MatchById(match_id) == {m \in matches : m.id = match_id}
TheMatch(match_id) == CHOOSE m \in MatchById(match_id) : TRUE

InsertMessage(match_id, user_id) ==
  Append(messages, [match_id |-> match_id, sender_id |-> user_id])

\* POST /matches/{match_id}/reveal; an id without a row ends in the
\* except of line 46, and so does the look for a deleted other user
reveal_match(match_id, user_id) ==
  LET req == [op |-> "reveal_match", match_id |-> match_id,
              user_id |-> user_id]
      match == TheMatch(match_id)
      first == match.user1 = user_id
      code == IF MatchById(match_id) = {} THEN 400
              ELSE IF user_id \notin {match.user1, match.user2} THEN 403
              ELSE IF (IF first THEN match.reveal_user1
                       ELSE match.reveal_user2) THEN 409
              ELSE 200
      updated_match == IF first THEN [match EXCEPT !.reveal_user1 = TRUE]
                       ELSE [match EXCEPT !.reveal_user2 = TRUE]
      both_revealed == updated_match.reveal_user1
                       /\ updated_match.reveal_user2
      other_user_id == IF first THEN match.user2 ELSE match.user1
  IN
  /\ resp = NoResp
  /\ IF code # 200
     THEN /\ resp' = [req |-> req, status |-> code]
          /\ UNCHANGED matches
     ELSE /\ matches' = (matches \ {match}) \cup {updated_match}
          /\ resp' = IF both_revealed /\ (~HasUserRow(other_user_id)
                                          \/ users[other_user_id].deleted)
                     THEN [req |-> req, status |-> 400]
                     ELSE [req |-> req, status |-> 200,
                           both_revealed |-> both_revealed]
  /\ UNCHANGED <<users, user_locations, user_filters, user_blocks,
                 abuse_reports, user_interests, user_lifestyle, user_goals,
                 writes, user_actions, calls, chat, rewinds, limiter>>

\* the status of send_message
SendError(match_id, user_id) ==
  IF MatchById(match_id) = {} THEN 400
  ELSE IF user_id \notin {TheMatch(match_id).user1, TheMatch(match_id).user2}
  THEN 403
  ELSE IF ~(TheMatch(match_id).reveal_user1
            /\ TheMatch(match_id).reveal_user2)
  THEN 400
  ELSE 200

\* POST /matches/{match_id}/messages
send_message(match_id, content, user_id) ==
  LET code == SendError(match_id, user_id) IN
  /\ resp = NoResp /\ Len(messages) < MaxMessages
  /\ messages' = IF code = 200 THEN InsertMessage(match_id, user_id)
                 ELSE messages
  /\ resp' = [req |-> [op |-> "send_message", match_id |-> match_id,
                       user_id |-> user_id],
              status |-> code]
  /\ UNCHANGED <<store, writes, user_actions, calls, active_connections,
                 rewinds, limiter>>

\* websocket /matches/ws/{match_id}/{user_id} up to its loop: only a user
\* of the match stays connected
WebsocketConnect(match_id, user_id) ==
  /\ resp = NoResp
  /\ MatchById(match_id) # {}
  /\ user_id \in {TheMatch(match_id).user1, TheMatch(match_id).user2}
  /\ active_connections' =
       active_connections \cup {[match_id |-> match_id, user_id |-> user_id]}
  /\ active_connections' # active_connections
  /\ UNCHANGED <<store, writes, resp, user_actions, calls, messages,
                 rewinds, limiter>>

\* one turn of the loop of websocket_endpoint: a frame without content is
\* skipped, any other is inserted
WebsocketReceive(socket, content) ==
  /\ resp = NoResp /\ Len(messages) < MaxMessages
  /\ socket \in active_connections
  /\ content # ""
  /\ messages' = InsertMessage(socket.match_id, socket.user_id)
  /\ UNCHANGED <<store, writes, resp, user_actions, calls,
                 active_connections, rewinds, limiter>>

\* WebSocketDisconnect
WebsocketDisconnect(socket) ==
  /\ resp = NoResp
  /\ socket \in active_connections
  /\ active_connections' = active_connections \ {socket}
  /\ UNCHANGED <<store, writes, resp, user_actions, calls, messages,
                 rewinds, limiter>>

\* the tables when the chat starts: users 1 and 2 are matched (match 1),
\* nobody has revealed, nothing has been sent
MessagesInit ==
  /\ users = [u \in Users |->
                [age |-> InitAge(u), is_verified |-> TRUE,
                 deleted |-> FALSE, values |-> InitValues(u)]]
  /\ user_locations = [u \in Users |-> Some(InitCoord(u))]
  /\ user_filters = [u \in Users |-> InitFilters(u)]
  /\ user_blocks = {}
  /\ \E d \in BOOLEAN :
       matches = {[id |-> 1, user1 |-> 1, user2 |-> 2, deleted |-> d,
                   reveal_user1 |-> FALSE, reveal_user2 |-> FALSE]}
  /\ abuse_reports = {}
  /\ user_interests = [u \in Users |-> InitInterests(u)]
  /\ user_lifestyle = [u \in Users |-> InitLifestyle(u)]
  /\ user_goals = [u \in Users |-> InitGoals(u)]
  /\ writes = 0
  /\ resp = NoResp
  /\ SocialIdle

NextMessages ==
  \/ \E m \in MatchIds, u \in Users : reveal_match(m, u)
  \/ \E m \in MatchIds, c \in Contents, u \in Users : send_message(m, c, u)
  \/ \E m \in MatchIds, u \in Users : WebsocketConnect(m, u)
  \/ \E m \in MatchIds, u \in Users, c \in Contents :
       WebsocketReceive([match_id |-> m, user_id |-> u], c)
  \/ \E m \in MatchIds, u \in Users :
       WebsocketDisconnect([match_id |-> m, user_id |-> u])
  \/ Respond

SpecMessages == MessagesInit /\ [][NextMessages]_vars

\* C29: every stored message belongs to a match whose two reveal flags are
\* set (a flag, once set, stays set) and was sent by one of the two users
\* of that match, whether send_message or the websocket stored it.
MessagesOnlyAfterReveal ==
  \A i \in DOMAIN messages :
    \E m \in matches :
      /\ m.id = messages[i].match_id
      /\ messages[i].sender_id \in {m.user1, m.user2}
      /\ m.reveal_user1 /\ m.reveal_user2

\* ------------------------------------------------------------ rate limiter
MaxRequests == 3
MaxHours == 1

\* LIMITS: action -> (limit, window in seconds)
LIMITS ==
  [swipe |-> [limit |-> 100, window |-> 3600],
   message |-> [limit |-> 60, window |-> 3600],
   block |-> [limit |-> 20, window |-> 3600],
   report |-> [limit |-> 10, window |-> 86400],
   global_ip |-> [limit |-> 1000, window |-> 3600]]

\* the actions a POST path is counted under
LimitedActions == {"swipe", "message", "block", "report"}

\* request.client.host of the clients, and request.state.user_id, which no
\* middleware or dependency of the application sets
Clients == {"10.0.0.1", "10.0.0.2"}
StateUserIds == {None}

\* get_rate_limit_key(request, action)
get_rate_limit_key(state_user_id, client_ip, action) ==
  IF action \in LimitedActions /\ ~IsNone(state_user_id)
  THEN <<action, Val(state_user_id)>>
  ELSE <<"global_ip", client_ip>>

\* [ts for ts in lst if now - ts < window]
RECURSIVE Recent(_, _)
Recent(lst, window) ==
  IF lst = <<>> THEN <<>>
  ELSE IF now - Head(lst) < window
  THEN <<Head(lst)>> \o Recent(Tail(lst), window)
  ELSE Recent(Tail(lst), window)

\* rate_limit_middleware for a POST counted under action; an admitted
\* request goes on to its handler
rate_limit_middleware(state_user_id, client_ip, action) ==
  LET req == [op |-> "rate_limit_middleware", action |-> action,
              client_ip |-> client_ip]
      key == get_rate_limit_key(state_user_id, client_ip, action)
      limit == LIMITS[action].limit
      window == LIMITS[action].window
      lst == IF key \in DOMAIN rate_limit_store THEN rate_limit_store[key]
             ELSE <<>>
      kept == Recent(lst, window)
      rejected == Len(kept) >= limit
      put(v) == [k \in DOMAIN rate_limit_store \cup {key} |->
                   IF k = key THEN v ELSE rate_limit_store[k]]
  IN
  /\ resp = NoResp /\ writes < MaxRequests
  /\ writes' = writes + 1
  /\ rate_limit_store' = put(IF rejected THEN kept ELSE Append(kept, now))
  /\ admitted' = IF rejected THEN admitted
                 ELSE Append(admitted, [action |-> action,
                                        client_ip |-> client_ip, ts |-> now])
  /\ resp' = [req |-> req, status |-> IF rejected THEN 429 ELSE 200]
  /\ UNCHANGED <<store, user_actions, calls, chat, rewinds, now>>

\* an hour passes
Tick ==
  /\ resp = NoResp /\ now < MaxHours * 3600
  /\ now' = now + 3600
  /\ UNCHANGED <<store, writes, resp, user_actions, calls, chat, rewinds,
                 rate_limit_store, admitted>>

\* the limiter when the requests start: it has seen nothing, or it has just
\* admitted all the reports but one that the first client may send in a day
LimiterInit ==
  /\ users = [u \in Users |->
                [age |-> InitAge(u), is_verified |-> TRUE,
                 deleted |-> FALSE, values |-> InitValues(u)]]
  /\ user_locations = [u \in Users |-> Some(InitCoord(u))]
  /\ user_filters = [u \in Users |-> InitFilters(u)]
  /\ user_blocks = {}
  /\ matches = {}
  /\ abuse_reports = {}
  /\ user_interests = [u \in Users |-> InitInterests(u)]
  /\ user_lifestyle = [u \in Users |-> InitLifestyle(u)]
  /\ user_goals = [u \in Users |-> InitGoals(u)]
  /\ writes = 0
  /\ resp = NoResp
  /\ user_actions = <<>>
  /\ calls = [u \in Users |-> None]
  /\ messages = <<>>
  /\ active_connections = {}
  /\ actions = <<>>
  /\ user_rewinds = {}
  /\ now = 0
  /\ \E n \in {0, LIMITS.report.limit - 1} :
       /\ admitted = [i \in 1..n |->
                        [action |-> "report", client_ip |-> "10.0.0.1",
                         ts |-> 0]]
       /\ rate_limit_store =
            IF n = 0 THEN <<>>
            ELSE [k \in {get_rate_limit_key(None, "10.0.0.1", "report")} |->
                    [i \in 1..n |-> 0]]

NextLimiter ==
  \/ \E u \in StateUserIds, c \in Clients, a \in LimitedActions :
       rate_limit_middleware(u, c, a)
  \/ Tick
  \/ Respond

SpecLimiter == LimiterInit /\ [][NextLimiter]_vars

\* the admitted requests of one action and one client whose timestamps lie
\* in the window of the action's length that starts at time t
AdmittedInWindow(action, client_ip, t) ==
  {i \in DOMAIN admitted :
     /\ admitted[i].action = action /\ admitted[i].client_ip = client_ip
     /\ t <= admitted[i].ts
     /\ admitted[i].ts < t + LIMITS[action].window}

WithinLimits ==
  \A i \in DOMAIN admitted :
    Cardinality(AdmittedInWindow(admitted[i].action, admitted[i].client_ip,
                                 admitted[i].ts))
      <= LIMITS[admitted[i].action].limit

\* C28: the admitted requests of an action from one client whose
\* timestamps fall in any window of the action's length are never more
\* than the action's limit, and a request answered with 429 adds no
\* timestamp to the store.
RateLimitRespected ==
  /\ []WithinLimits
  /\ [][(resp = NoResp /\ resp' # NoResp
         /\ resp'.req.op = "rate_limit_middleware" /\ resp'.status = 429)
          => \A k \in DOMAIN rate_limit_store' :
               Len(rate_limit_store'[k])
                 <= (IF k \in DOMAIN rate_limit_store
                     THEN Len(rate_limit_store[k]) ELSE 0)]_vars

\* ------------------------------------------------------------------ rewind
\* get_current_user(): the placeholder answers with one fixed id
get_current_user == 1

\* the rows of the actions table; created_at is kept as the whole days
\* gone by since
InitActions ==
  <<[user_id |-> 1, action_type |-> "swipe_left", target_user_id |-> 2,
     days |-> 0, deleted |-> FALSE],
    [user_id |-> 1, action_type |-> "swipe_right", target_user_id |-> 3,
     days |-> 0, deleted |-> FALSE],
    [user_id |-> 1, action_type |-> "swipe_left", target_user_id |-> 3,
     days |-> 2, deleted |-> FALSE],
    [user_id |-> 1, action_type |-> "super_like", target_user_id |-> 2,
     days |-> 0, deleted |-> FALSE],
    [user_id |-> 2, action_type |-> "swipe_left", target_user_id |-> 1,
     days |-> 0, deleted |-> FALSE]>>

\* the ids a request can name: the stored actions and an unknown one
ActionIds == 0..Len(InitActions)

\* the matches table has, in every other handler, the columns user1 and
\* user2; the query of rewind.py:127-129 on user_id_1 and user_id_2 raises,
\* or finds no row
RewindLibs == [column_raises : BOOLEAN]

\* user_rewinds ... .eq("user_id", u).eq("status", "available"), count
Remaining(user_id) ==
  Cardinality({r \in user_rewinds :
                 r.user_id = user_id /\ r.status = "available"})

UsedRewinds(action_id) ==
  {r \in user_rewinds : r.status = "used" /\ r.action_id = Some(action_id)}

\* rewind_action up to its first update: the status it raises, or 0
RewindChecks(action_id, current_user) ==
  IF action_id \notin DOMAIN actions THEN 404
  ELSE IF actions[action_id].user_id # current_user THEN 403
  ELSE IF actions[action_id].action_type \notin {"swipe_left", "swipe_right"}
  THEN 400
  ELSE IF actions[action_id].days > 1 THEN 400
  ELSE IF UsedRewinds(action_id) # {} THEN 400
  ELSE IF Remaining(current_user) <= 0 THEN 429
  ELSE 0

\* POST /rewind/action/{action_id}
rewind_action(action_id, lib) ==
  LET current_user == get_current_user
      req == [op |-> "rewind_action", action_id |-> action_id,
              user_id |-> current_user, lib |-> lib]
      code == RewindChecks(action_id, current_user)
      action == actions[action_id]
      failed == action.action_type = "swipe_right" /\ lib.column_raises
  IN
  /\ resp = NoResp
  /\ IF code # 0
     THEN /\ resp' = [req |-> req, status |-> code]
          /\ UNCHANGED <<actions, user_rewinds>>
     ELSE /\ actions' = [actions EXCEPT ![action_id].deleted = TRUE]
          /\ user_rewinds' =
               IF failed THEN user_rewinds
               ELSE user_rewinds \cup
                      {[id |-> Cardinality(user_rewinds) + 1,
                        user_id |-> current_user,
                        action_id |-> Some(action_id), status |-> "used"]}
          /\ resp' = IF failed THEN [req |-> req, status |-> 500]
                     ELSE [req |-> req, status |-> 200,
                           remaining_rewinds |-> 0 - 1]
  /\ UNCHANGED <<store, writes, user_actions, calls, chat, limiter>>

\* GET /rewind/remaining/{user_id}
get_remaining_rewinds(user_id) ==
  LET req == [op |-> "get_remaining_rewinds", user_id |-> user_id] IN
  /\ resp = NoResp
  /\ resp' = IF user_id # get_current_user
             THEN [req |-> req, status |-> 403]
             ELSE IF ~HasUserRow(user_id) THEN [req |-> req, status |-> 404]
             ELSE [req |-> req, status |-> 200,
                   remaining_rewinds |-> Remaining(user_id),
                   can_rewind |-> Remaining(user_id) > 0]
  /\ UNCHANGED <<store, social, writes>>

\* the tables when the rewinding starts: the user has none, one or two
\* rewinds available
RewindInit ==
  /\ users = [u \in Users |->
                [age |-> InitAge(u), is_verified |-> TRUE,
                 deleted |-> FALSE, values |-> InitValues(u)]]
  /\ user_locations = [u \in Users |-> Some(InitCoord(u))]
  /\ user_filters = [u \in Users |-> InitFilters(u)]
  /\ user_blocks = {}
  /\ matches = {}
  /\ abuse_reports = {}
  /\ user_interests = [u \in Users |-> InitInterests(u)]
  /\ user_lifestyle = [u \in Users |-> InitLifestyle(u)]
  /\ user_goals = [u \in Users |-> InitGoals(u)]
  /\ writes = 0
  /\ resp = NoResp
  /\ user_actions = <<>>
  /\ calls = [u \in Users |-> None]
  /\ messages = <<>>
  /\ active_connections = {}
  /\ actions = InitActions
  /\ \E n \in 0..2 :
       user_rewinds = {[id |-> i, user_id |-> get_current_user,
                        action_id |-> None, status |-> "available"] :
                         i \in 1..n}
  /\ rate_limit_store = <<>>
  /\ now = 0
  /\ admitted = <<>>

NextRewind ==
  \/ \E a \in ActionIds, lib \in RewindLibs : rewind_action(a, lib)
  \/ \E u \in Users : get_remaining_rewinds(u)
  \/ Respond

SpecRewind == RewindInit /\ [][NextRewind]_vars

\* a rewind_action call is answered in this step
RewindAnswered ==
  resp = NoResp /\ resp' # NoResp /\ resp'.req.op = "rewind_action"

\* C30: no action has more than one rewind recorded; each successful
\* rewind_action lowers by one the number of rewinds its user has
\* available, so that the successful rewinds never outnumber the rewinds
\* the user had; a call of a user with none available does not succeed,
\* and 429 is answered only to such a user.
RewindQuota ==
  /\ [](\A a \in DOMAIN actions : Cardinality(UsedRewinds(a)) <= 1)
  /\ [][RewindAnswered =>
          /\ resp'.status = 200 =>
               Remaining(get_current_user)' = Remaining(get_current_user) - 1
          /\ Remaining(get_current_user) = 0 => resp'.status # 200
          /\ resp'.status = 429 => Remaining(get_current_user) = 0]_vars

====
